---- MODULE Spec2Model ----
(***************************************************************************)
(* A model of the assignment3 rendering scaffold: the ShaderProgram        *)
(* lifecycle wrapper (shader_program.h / shader_program.cc) on top of a    *)
(* model of the OpenGL object namespace it drives, and the transform       *)
(* builders of transformations.cc.                                         *)
(***************************************************************************)
EXTENDS Integers, Sequences, FiniteSets, TLC

VARIABLES
  shader_program,   \* the ShaderProgram instance: its six member attributes
  alive,            \* TRUE from construction until the destructor has run
  gl,               \* the OpenGL context: object names, objects, bound program, call trace
  error_info_log,   \* the caller's std::string that Create may be given a pointer to
  op,               \* the member function that ran last
  arg,              \* its argument (text, path, or whether the log pointer was non-null)
  ret,              \* its return value
  create_succeeded, \* history: a Create call on the instance has returned true
  create_failed,    \* history: a Create call on the instance has returned false
  offset,           \* transformations: the offset handed to ComputeTranslationMatrix
  translation1,     \* transformations: ComputeTranslationMatrix(offset)
  translation2,     \* transformations: ComputeTranslationMatrix(-offset), or of offset again
  scale,            \* transformations: the factor handed to ComputeScalingMatrix
  scaling,          \* transformations: ComputeScalingMatrix(scale)
  rotation_axis,    \* transformations: the axis handed to ComputeRotationMatrix
  angle,            \* transformations: the angle handed to it, in quarter turns
  rotation1,        \* transformations: ComputeRotationMatrix(rotation_axis, angle)
  rotation2,        \* transformations: ComputeRotationMatrix(rotation_axis, -angle)
  tpc,              \* transformations: position of the caller
  model,            \* the Model object: its private data members
  model_matrix,     \* what ComputeModelMatrix returned to the caller
  vertices_in_gpu,  \* history: SetVerticesIntoGpu has been called on model
  mpc,              \* Model: position of the caller in the object's life
  vx,                \* assignment: first vector handed to the products
  vy,                \* assignment: second vector handed to the products
  dot_result,       \* assignment: ComputeDotProduct(vx, vy)
  cross_result,     \* assignment: ComputeCrossProduct(vx, vy)
  cross_swapped,    \* assignment: ComputeCrossProduct(vy, vx)
  lpc,              \* assignment: position of the caller
  field_of_view,    \* camera_utils: the angle handed to the projection, in eighths of a turn
  aspect_ratio,     \* camera_utils: width / height, a fraction
  near,             \* camera_utils: distance of the near plane
  far,              \* camera_utils: distance of the far plane
  projection_matrix, \* camera_utils: what ComputePerspectiveProjectionMatrix returned
  cpc,              \* camera_utils: position of the caller
  main_pc,          \* main: the statement main is about to run
  glfw,             \* main: the GLFW library and the window it manages
  exit_code,        \* main: <<the value main returned>>, << >> while it runs
  models_to_draw,   \* main: the local models_to_draw
  main_aspect_ratio, \* main: the local aspect_ratio
  frames,           \* history: the number of RenderScene calls so far
  delivered,        \* history: the events the last glfwPollEvents dispatched
  loop_trace        \* history: the calls the render loop has made, in order

shaderVars == <<shader_program, alive, gl, error_info_log, op, arg, ret, create_succeeded, create_failed>>
translationVars == <<offset, translation1, translation2>>
scalingVars == <<scale, scaling>>
rotationVars == <<rotation_axis, angle, rotation1, rotation2>>
transformVars == <<translationVars, scalingVars, rotationVars, tpc>>
\* What the member functions of ShaderProgram leave alone, and what the
\* callers of the transform builders leave alone.
modelVars == <<model, model_matrix, vertices_in_gpu, mpc>>
\* The ShaderProgram object and its caller, without the OpenGL context.
shaderObjectVars == <<shader_program, alive, error_info_log, op, arg, ret,
                      create_succeeded, create_failed>>
assignmentVars == <<vx, vy, dot_result, cross_result, cross_swapped, lpc>>
cameraVars == <<field_of_view, aspect_ratio, near, far, projection_matrix, cpc>>
mainVars == <<main_pc, glfw, exit_code, models_to_draw, main_aspect_ratio, frames,
             delivered, loop_trace>>
nonShaderVars == <<transformVars, modelVars, assignmentVars, cameraVars, mainVars>>
nonTransformVars == <<shaderVars, modelVars, assignmentVars, cameraVars, mainVars>>
nonModelVars == <<shaderObjectVars, transformVars, assignmentVars, cameraVars, mainVars>>
nonAssignmentVars == <<shaderVars, transformVars, modelVars, cameraVars, mainVars>>
nonCameraVars == <<shaderVars, transformVars, modelVars, assignmentVars, mainVars>>
\* What main leaves alone: the callers of the other specifications, and the
\* bookkeeping of the calls on a ShaderProgram made outside main.
nonMainVars == <<op, arg, transformVars, modelVars, assignmentVars, cameraVars>>
vars == <<shaderVars, transformVars, modelVars, assignmentVars, cameraVars, mainVars>>

(***************************************************************************)
(* Bounds.                                                                 *)
(***************************************************************************)
\* Object names the GL context hands out before the model stops creating.
MaxHandles == 4
\* Coordinates of offsets and probe points range over -MaxCoord..MaxCoord.
MaxCoord == 1
\* The plane distances and the window sides range over 1..MaxDepth and 1..MaxSide.
MaxDepth == 4
MaxSide == 3
\* main renders at most MaxFrames frames, and one glfwPollEvents dispatches
\* at most MaxEvents events.
MaxFrames == 2
MaxEvents == 2

(***************************************************************************)
(* Program constants.                                                      *)
(***************************************************************************)
kNumCharsInfoLog == 512
VERTEX == 0
FRAGMENT == 1

Min(a, b) == IF a <= b THEN a ELSE b

(***************************************************************************)
(* Strings. Shader sources are opaque texts. An info log string is a       *)
(* std::string of character codes, 0 being the NUL character: size is its  *)
(* size() and text holds its characters up to the last one that is not     *)
(* NUL, every character after them being NUL.                              *)
(***************************************************************************)
ShaderSources == {"", "vs_ok", "fs_ok", "fs_nolink", "bad"}

EmptyString == [size |-> 0, text |-> <<>>]

RECURSIVE TrimNul(_)
TrimNul(t) ==
  IF t = <<>> THEN t
  ELSE IF t[Len(t)] = 0 THEN TrimNul(SubSeq(t, 1, Len(t) - 1)) ELSE t

CharAt(s, i) == IF i <= Len(s.text) THEN s.text[i] ELSE 0

\* std::string::resize(n): keeps the first n characters, pads with NUL.
StringResize(s, n) ==
  [size |-> n, text |-> TrimNul(SubSeq(s.text, 1, Min(Len(s.text), n)))]

(***************************************************************************)
(* The GLSL compiler and linker of the driver, as a table over the sample  *)
(* sources: what compiles for which stage, which pairs link, and the       *)
(* diagnostic text the driver keeps for a failure (it may be empty).       *)
(***************************************************************************)
DriverCompiles(type, src) ==
  IF type = VERTEX THEN src = "vs_ok" ELSE src \in {"fs_ok", "fs_nolink"}

DriverShaderLog(type, src) ==
  IF DriverCompiles(type, src) \/ src = "" THEN <<>>
  ELSE IF type = VERTEX THEN <<1, 9>> ELSE <<2, 9>>

DriverLinks(vsrc, fsrc) == vsrc = "vs_ok" /\ fsrc = "fs_ok"

DriverProgramLog(vsrc, fsrc) == IF DriverLinks(vsrc, fsrc) THEN <<>> ELSE <<3, 9>>

(***************************************************************************)
(* The OpenGL calls the program makes. Each takes the context g and        *)
(* returns the context after the call; every call is appended to g.calls.  *)
(* A call on a name that is not an object of the right kind raises a GL    *)
(* error and changes nothing.                                              *)
(***************************************************************************)
GlTrace(g, c) == [g EXCEPT !.calls = Append(@, c)]

\* glCreateShader: a fresh non-zero name, or 0 when the context cannot create one.
glCreateShader(g, type, alloc) ==
  LET id == IF alloc THEN g.next ELSE 0
      g1 == GlTrace(g, <<"glCreateShader", type, id>>)
  IN  [id |-> id,
       gl |-> IF alloc
              THEN [g1 EXCEPT !.next = @ + 1,
                              !.shaders = @ @@ (id :> [type |-> type, src |-> "",
                                                       status |-> FALSE, log |-> <<>>,
                                                       delete_pending |-> FALSE])]
              ELSE g1]

glShaderSource(g, id, src) ==
  LET g1 == GlTrace(g, <<"glShaderSource", id>>)
  IN  IF id \in DOMAIN g.shaders THEN [g1 EXCEPT !.shaders[id].src = src] ELSE g1

glCompileShader(g, id) ==
  LET g1 == GlTrace(g, <<"glCompileShader", id>>)
  IN  IF id \in DOMAIN g.shaders
      THEN [g1 EXCEPT !.shaders[id].status = DriverCompiles(g.shaders[id].type, g.shaders[id].src),
                      !.shaders[id].log = DriverShaderLog(g.shaders[id].type, g.shaders[id].src)]
      ELSE g1

\* glGetShaderiv(GL_COMPILE_STATUS): writes the status, or leaves the
\* caller's variable as it was when the name is not a shader.
glGetShaderiv(g, id, success) ==
  [gl |-> GlTrace(g, <<"glGetShaderiv", id>>),
   success |-> IF id \in DOMAIN g.shaders THEN g.shaders[id].status ELSE success]

\* glGet{Shader,Program}InfoLog(max_length): copies at most max_length - 1
\* characters of the object's log and a NUL terminator to the buffer's front.
WriteInfoLog(buf, max_length, log) ==
  LET k == Min(Len(log), max_length - 1)
      last == Min(buf.size, IF Len(buf.text) > k THEN Len(buf.text) ELSE k)
  IN  [size |-> buf.size,
       text |-> TrimNul([i \in 1..last |->
                           IF i <= k THEN log[i]
                           ELSE IF i = k + 1 THEN 0 ELSE CharAt(buf, i)])]

glGetShaderInfoLog(g, id, max_length, buf) ==
  [gl |-> GlTrace(g, <<"glGetShaderInfoLog", id>>),
   buf |-> IF id \in DOMAIN g.shaders
           THEN WriteInfoLog(buf, max_length, g.shaders[id].log) ELSE buf]

glCreateProgram(g, alloc) ==
  LET id == IF alloc THEN g.next ELSE 0
      g1 == GlTrace(g, <<"glCreateProgram", id>>)
  IN  [id |-> id,
       gl |-> IF alloc
              THEN [g1 EXCEPT !.next = @ + 1,
                              !.programs = @ @@ (id :> [attached |-> {}, status |-> FALSE,
                                                        log |-> <<>>,
                                                        delete_pending |-> FALSE])]
              ELSE g1]

glAttachShader(g, program, shader) ==
  LET g1 == GlTrace(g, <<"glAttachShader", program, shader>>)
  IN  IF program \in DOMAIN g.programs /\ shader \in DOMAIN g.shaders
      THEN [g1 EXCEPT !.programs[program].attached = @ \cup {shader}]
      ELSE g1

\* The source text of the attached shader of the given stage ("" if none).
AttachedSource(g, program, type) ==
  LET s == {id \in g.programs[program].attached : g.shaders[id].type = type}
  IN  IF s = {} THEN "" ELSE g.shaders[CHOOSE id \in s : TRUE].src

glLinkProgram(g, program) ==
  LET g1 == GlTrace(g, <<"glLinkProgram", program>>)
  IN  IF program \in DOMAIN g.programs
      THEN LET att == g.programs[program].attached
               vsrc == AttachedSource(g, program, VERTEX)
               fsrc == AttachedSource(g, program, FRAGMENT)
               ok == /\ \A id \in att : g.shaders[id].status
                     /\ DriverLinks(vsrc, fsrc)
           IN  [g1 EXCEPT !.programs[program].status = ok,
                          !.programs[program].log = IF ok THEN <<>> ELSE DriverProgramLog(vsrc, fsrc)]
      ELSE g1

glGetProgramiv(g, program, success) ==
  [gl |-> GlTrace(g, <<"glGetProgramiv", program>>),
   success |-> IF program \in DOMAIN g.programs THEN g.programs[program].status ELSE success]

glGetProgramInfoLog(g, program, max_length, buf) ==
  [gl |-> GlTrace(g, <<"glGetProgramInfoLog", program>>),
   buf |-> IF program \in DOMAIN g.programs
           THEN WriteInfoLog(buf, max_length, g.programs[program].log) ELSE buf]

Restrict(f, S) == [x \in S |-> f[x]]

\* glDeleteShader: 0 is silently ignored; a shader attached to a program is
\* only flagged and lives until it is detached; any other shader is freed.
glDeleteShader(g, id) ==
  LET g1 == GlTrace(g, <<"glDeleteShader", id>>)
  IN  IF id \in DOMAIN g.shaders
      THEN IF \E p \in DOMAIN g.programs : id \in g.programs[p].attached
           THEN [g1 EXCEPT !.shaders[id].delete_pending = TRUE]
           ELSE [g1 EXCEPT !.shaders = Restrict(@, DOMAIN @ \ {id})]
      ELSE g1

\* glDeleteProgram: 0 is silently ignored; the program that is current is
\* only flagged and lives on as part of the current state; any other
\* program is freed, its shaders are detached and those flagged for
\* deletion that no other program holds are freed with it.
glDeleteProgram(g, program) ==
  LET g1 == GlTrace(g, <<"glDeleteProgram", program>>)
  IN  IF program \in DOMAIN g.programs
      THEN IF g.current = program
           THEN [g1 EXCEPT !.programs[program].delete_pending = TRUE]
           ELSE LET rest == DOMAIN g.programs \ {program}
                    freed == {id \in g.programs[program].attached :
                                /\ g.shaders[id].delete_pending
                                /\ \A p \in rest : id \notin g.programs[p].attached}
                IN  [g1 EXCEPT !.programs = Restrict(@, rest),
                               !.shaders = Restrict(@, DOMAIN @ \ freed)]
      ELSE g1

glUseProgram(g, program) ==
  LET g1 == GlTrace(g, <<"glUseProgram", program>>)
  IN  IF program = 0 \/ (program \in DOMAIN g.programs /\ g.programs[program].status)
      THEN [g1 EXCEPT !.current = program]
      ELSE g1

(***************************************************************************)
(* shader_program.cc, anonymous namespace. In every operator info_log_ptr  *)
(* tells whether the info_log pointer is non-null and info_log is the      *)
(* string it points to; alloc is the context's answer to the creation of   *)
(* the object.                                                             *)
(***************************************************************************)
\* What CompileShader and CreateShaderProgram return: the id (0 on
\* failure), with the context and the info log string as they leave them.
Returned(id, g, info_log) == [ret |-> id, gl |-> g, info_log |-> info_log]
ReturnedWithLog(id, w) == [ret |-> id, gl |-> w.gl, info_log |-> w.buf]

\* The end of CompileShader without the resize of the info log.
CompileShaderStatusNoResize(st, shader_id, info_log_ptr, info_log) ==
  IF ~st.success
  THEN IF info_log_ptr
       THEN ReturnedWithLog(0, glGetShaderInfoLog(st.gl, shader_id, kNumCharsInfoLog,
                                                  info_log))
       ELSE Returned(0, st.gl, info_log)
  ELSE Returned(shader_id, st.gl, info_log)

\* CompileShader from "if (!success)" on: st is what glGetShaderiv answered.
CompileShaderStatus(st, shader_id, info_log_ptr, info_log) ==
  IF ~st.success
  THEN IF info_log_ptr
       THEN ReturnedWithLog(0, glGetShaderInfoLog(st.gl, shader_id, kNumCharsInfoLog,
                                                  StringResize(info_log, kNumCharsInfoLog)))
       ELSE Returned(0, st.gl, info_log)
  ELSE Returned(shader_id, st.gl, info_log)

\* CompileShader after glCreateShader: c is what glCreateShader answered.
CompileShaderId(c, shader_src, info_log_ptr, info_log) ==
  CompileShaderStatus(
    glGetShaderiv(glCompileShader(glShaderSource(c.gl, c.id, shader_src), c.id), c.id, FALSE),
    c.id, info_log_ptr, info_log)

\* CompileShader: returns the shader id, or 0 after a failed compilation.
CompileShader(g, shader_src, shader_type, info_log_ptr, info_log, alloc) ==
  CompileShaderId(glCreateShader(g, shader_type, alloc), shader_src, info_log_ptr, info_log)

\* The end of CreateShaderProgram returning the program id after a failed link too.
CreateShaderProgramStatusReturnsHandle(st, shader_program_, info_log_ptr, info_log) ==
  IF ~st.success
  THEN IF info_log_ptr
       THEN ReturnedWithLog(shader_program_,
                            glGetProgramInfoLog(st.gl, shader_program_, kNumCharsInfoLog,
                                                StringResize(info_log, kNumCharsInfoLog)))
       ELSE Returned(shader_program_, st.gl, info_log)
  ELSE Returned(shader_program_, st.gl, info_log)

\* CreateShaderProgram from "if (!success)" on: st is what glGetProgramiv answered.
CreateShaderProgramStatus(st, shader_program_, info_log_ptr, info_log) ==
  IF ~st.success
  THEN IF info_log_ptr
       THEN ReturnedWithLog(0, glGetProgramInfoLog(st.gl, shader_program_, kNumCharsInfoLog,
                                                   StringResize(info_log, kNumCharsInfoLog)))
       ELSE Returned(0, st.gl, info_log)
  ELSE Returned(shader_program_, st.gl, info_log)

\* CreateShaderProgram after glCreateProgram: c is what glCreateProgram answered.
CreateShaderProgramId(c, vertex_shader, fragment_shader, info_log_ptr, info_log) ==
  CreateShaderProgramStatus(
    glGetProgramiv(
      glLinkProgram(
        glAttachShader(glAttachShader(c.gl, c.id, vertex_shader), c.id, fragment_shader),
        c.id),
      c.id, FALSE),
    c.id, info_log_ptr, info_log)

\* CreateShaderProgram: returns the program id, or 0 after a failed link.
CreateShaderProgram(g, vertex_shader, fragment_shader, info_log_ptr, info_log, alloc) ==
  CreateShaderProgramId(glCreateProgram(g, alloc), vertex_shader, fragment_shader,
                        info_log_ptr, info_log)

\* ReleaseShaderResources forgetting the fragment shader.
ReleaseShaderResourcesVertexOnly(g, vertex_shader, fragment_shader) ==
  glDeleteShader(g, vertex_shader)

ReleaseShaderResources(g, vertex_shader, fragment_shader) ==
  glDeleteShader(glDeleteShader(g, vertex_shader), fragment_shader)

(***************************************************************************)
(* The file system LoadShaderFromFile reads: which paths std::ifstream     *)
(* opens, and the text it then reads.                                      *)
(***************************************************************************)
ShaderPaths == {"vs.glsl", "fs.glsl", "empty.glsl", "missing.glsl"}

FileOpens(filepath) == filepath # "missing.glsl"

FileContents(filepath) ==
  IF filepath = "vs.glsl" THEN "vs_ok"
  ELSE IF filepath = "fs.glsl" THEN "fs_ok"
  ELSE ""

\* LoadShaderFromFile without the is_open() test: a stream that did not
\* open reads as empty.
LoadShaderFromFileNoOpenCheck(filepath, loaded_file_ptr, loaded_file) ==
  IF ~loaded_file_ptr
  THEN [ret |-> FALSE, loaded_file |-> loaded_file]
  ELSE [ret |-> TRUE,
        loaded_file |-> IF FileOpens(filepath) THEN FileContents(filepath) ELSE ""]

\* LoadShaderFromFile clearing the sink before it tests the stream.
LoadShaderFromFileClearsFirst(filepath, loaded_file_ptr, loaded_file) ==
  IF ~FileOpens(filepath) \/ ~loaded_file_ptr
  THEN [ret |-> FALSE, loaded_file |-> ""]
  ELSE [ret |-> TRUE, loaded_file |-> FileContents(filepath)]

\* LoadShaderFromFile: loaded_file_ptr tells whether the sink pointer is
\* non-null, loaded_file is the string it points to.
LoadShaderFromFile(filepath, loaded_file_ptr, loaded_file) ==
  IF ~FileOpens(filepath) \/ ~loaded_file_ptr
  THEN [ret |-> FALSE, loaded_file |-> loaded_file]
  ELSE [ret |-> TRUE, loaded_file |-> FileContents(filepath)]

(***************************************************************************)
(* ShaderProgram's protected build steps. self is the object; the result   *)
(* carries the return value, the object, the context and the info log      *)
(* after the step.                                                         *)
(***************************************************************************)
\* BuildVertexShader reporting success whatever CompileShader returned.
StoreVertexShaderIgnoresFailure(self, c) ==
  [ret |-> TRUE, gl |-> c.gl, info_log |-> c.info_log,
   self |-> [self EXCEPT !.vertex_shader_ = c.ret]]

\* vertex_shader_ = c.ret; return vertex_shader_ != 0
StoreVertexShader(self, c) ==
  [ret |-> c.ret # 0, gl |-> c.gl, info_log |-> c.info_log,
   self |-> [self EXCEPT !.vertex_shader_ = c.ret]]

BuildVertexShader(self, g, info_log_ptr, info_log, alloc) ==
  StoreVertexShader(self, CompileShader(g, self.vertex_shader_src_, VERTEX,
                                        info_log_ptr, info_log, alloc))

\* fragment_shader_ = c.ret; return fragment_shader_ != 0
StoreFragmentShader(self, c) ==
  [ret |-> c.ret # 0, gl |-> c.gl, info_log |-> c.info_log,
   self |-> [self EXCEPT !.fragment_shader_ = c.ret]]

BuildFragmentShader(self, g, info_log_ptr, info_log, alloc) ==
  StoreFragmentShader(self, CompileShader(g, self.fragment_shader_src_, FRAGMENT,
                                          info_log_ptr, info_log, alloc))

\* LinkProgram keeping the vertex shader's id instead of the program's.
StoreProgramStoresShader(self, c) ==
  [ret |-> c.ret # 0,
   gl |-> ReleaseShaderResources(c.gl, self.vertex_shader_, self.fragment_shader_),
   info_log |-> c.info_log,
   self |-> [self EXCEPT !.shader_program_id_ = IF c.ret # 0 THEN self.vertex_shader_ ELSE 0]]

\* shader_program_id_ = c.ret; ReleaseShaderResources; return shader_program_id_ != 0
StoreProgram(self, c) ==
  [ret |-> c.ret # 0,
   gl |-> ReleaseShaderResources(c.gl, self.vertex_shader_, self.fragment_shader_),
   info_log |-> c.info_log,
   self |-> [self EXCEPT !.shader_program_id_ = c.ret]]

LinkProgram(self, g, info_log_ptr, info_log, alloc) ==
  StoreProgram(self, CreateShaderProgram(g, self.vertex_shader_, self.fragment_shader_,
                                         info_log_ptr, info_log, alloc))

(***************************************************************************)
(* ShaderProgram::Create. error_info_log_ptr tells whether the caller's    *)
(* pointer is non-null, caller_log is the string it points to; alloc[1..3] *)
(* are the context's answers to the three object creations. The outcome    *)
(* is the return value, the object, the context and the caller's string.   *)
(***************************************************************************)
\* A failed step that leaves the instance marked as created.
CreateFailedMarksCreated(step, error_info_log_ptr, caller_log) ==
  [ret |-> FALSE, self |-> [step.self EXCEPT !.created_ = TRUE], gl |-> step.gl,
   log |-> IF error_info_log_ptr THEN step.info_log ELSE caller_log]

\* A step failed: copy its info log to the caller and return false.
CreateFailed(step, error_info_log_ptr, caller_log) ==
  [ret |-> FALSE, self |-> step.self, gl |-> step.gl,
   log |-> IF error_info_log_ptr THEN step.info_log ELSE caller_log]

\* Create setting created_ before it looks at what LinkProgram returned.
CreateAfterLinkMarksCreated(lp, error_info_log_ptr, caller_log) ==
  IF ~lp.ret
  THEN CreateFailed([lp EXCEPT !.self.created_ = TRUE], error_info_log_ptr, caller_log)
  ELSE [ret |-> TRUE, self |-> [lp.self EXCEPT !.created_ = TRUE],
        gl |-> lp.gl, log |-> caller_log]

\* Create after LinkProgram: lp is the outcome of LinkProgram.
CreateAfterLink(lp, error_info_log_ptr, caller_log) ==
  IF ~lp.ret
  THEN CreateFailed(lp, error_info_log_ptr, caller_log)
  ELSE [ret |-> TRUE, self |-> [lp.self EXCEPT !.created_ = TRUE],
        gl |-> lp.gl, log |-> caller_log]

\* Create after BuildFragmentShader: bf is the outcome of BuildFragmentShader.
CreateAfterFragment(bf, error_info_log_ptr, caller_log, alloc) ==
  IF ~bf.ret
  THEN CreateFailed(bf, error_info_log_ptr, caller_log)
  ELSE CreateAfterLink(LinkProgram(bf.self, bf.gl, TRUE, bf.info_log, alloc[3]),
                       error_info_log_ptr, caller_log)

\* Create after BuildVertexShader: bv is the outcome of BuildVertexShader.
CreateAfterVertex(bv, error_info_log_ptr, caller_log, alloc) ==
  IF ~bv.ret
  THEN CreateFailed(bv, error_info_log_ptr, caller_log)
  ELSE CreateAfterFragment(BuildFragmentShader(bv.self, bv.gl, TRUE, bv.info_log, alloc[2]),
                           error_info_log_ptr, caller_log, alloc)

\* The three steps of Create on an instance that is not created yet; the
\* local info_log starts empty.
CreateSteps(self, g, error_info_log_ptr, caller_log, alloc) ==
  CreateAfterVertex(BuildVertexShader(self, g, TRUE, EmptyString, alloc[1]),
                    error_info_log_ptr, caller_log, alloc)

\* Create without the early return on created_.
CreateOutcomeRebuilds(self, g, error_info_log_ptr, caller_log, alloc) ==
  CreateSteps(self, g, error_info_log_ptr, caller_log, alloc)

CreateOutcome(self, g, error_info_log_ptr, caller_log, alloc) ==
  IF self.created_
  THEN [ret |-> TRUE, self |-> self, gl |-> g, log |-> caller_log]
  ELSE CreateSteps(self, g, error_info_log_ptr, caller_log, alloc)

(***************************************************************************)
(* The ShaderProgram instance and its public member functions.             *)
(***************************************************************************)
\* ShaderProgram::ShaderProgram()
NewShaderProgram ==
  [vertex_shader_src_ |-> "", fragment_shader_src_ |-> "",
   vertex_shader_ |-> 0, fragment_shader_ |-> 0, shader_program_id_ |-> 0,
   created_ |-> FALSE]

\* ShaderProgram::shader_program_id()
shader_program_id == shader_program.shader_program_id_

\* Every member function starts with an empty call trace.
NoCalls(g) == [g EXCEPT !.calls = <<>>]

\* The alloc field of arg for the member functions that create no object.
NoAlloc == <<FALSE, FALSE, FALSE>>

LoadVertexShaderFromString(vertex_shader_source) ==
  /\ alive
  /\ shader_program' = [shader_program EXCEPT !.vertex_shader_src_ = vertex_shader_source]
  /\ ret' = TRUE
  /\ op' = "LoadVertexShaderFromString"
  /\ arg' = [log_ptr |-> FALSE, text |-> vertex_shader_source, alloc |-> NoAlloc]
  /\ gl' = NoCalls(gl)
  /\ UNCHANGED <<alive, error_info_log, create_succeeded, create_failed>>
  /\ UNCHANGED nonShaderVars

LoadFragmentShaderFromString(fragment_shader_source) ==
  /\ alive
  /\ shader_program' = [shader_program EXCEPT !.fragment_shader_src_ = fragment_shader_source]
  /\ ret' = TRUE
  /\ op' = "LoadFragmentShaderFromString"
  /\ arg' = [log_ptr |-> FALSE, text |-> fragment_shader_source, alloc |-> NoAlloc]
  /\ gl' = NoCalls(gl)
  /\ UNCHANGED <<alive, error_info_log, create_succeeded, create_failed>>
  /\ UNCHANGED nonShaderVars

\* A From-File loader that takes the new source to invalidate the program.
LoadedVertexResets(r) ==
  /\ shader_program' = [shader_program EXCEPT !.vertex_shader_src_ = r.loaded_file,
                                              !.created_ = FALSE]
  /\ ret' = r.ret

\* The effect of a From-File loader: r is what LoadShaderFromFile returned
\* and left in the member string it was given.
LoadedVertex(r) ==
  /\ shader_program' = [shader_program EXCEPT !.vertex_shader_src_ = r.loaded_file]
  /\ ret' = r.ret

LoadedFragment(r) ==
  /\ shader_program' = [shader_program EXCEPT !.fragment_shader_src_ = r.loaded_file]
  /\ ret' = r.ret

LoadVertexShaderFromFile(vertex_shader_path) ==
  /\ alive
  /\ LoadedVertex(LoadShaderFromFile(vertex_shader_path, TRUE,
                                     shader_program.vertex_shader_src_))
  /\ op' = "LoadVertexShaderFromFile"
  /\ arg' = [log_ptr |-> FALSE, text |-> vertex_shader_path, alloc |-> NoAlloc]
  /\ gl' = NoCalls(gl)
  /\ UNCHANGED <<alive, error_info_log, create_succeeded, create_failed>>
  /\ UNCHANGED nonShaderVars

LoadFragmentShaderFromFile(fragment_shader_path) ==
  /\ alive
  /\ LoadedFragment(LoadShaderFromFile(fragment_shader_path, TRUE,
                                       shader_program.fragment_shader_src_))
  /\ op' = "LoadFragmentShaderFromFile"
  /\ arg' = [log_ptr |-> FALSE, text |-> fragment_shader_path, alloc |-> NoAlloc]
  /\ gl' = NoCalls(gl)
  /\ UNCHANGED <<alive, error_info_log, create_succeeded, create_failed>>
  /\ UNCHANGED nonShaderVars

\* The effect of Create: r is its outcome.
Created(r) ==
  /\ shader_program' = r.self
  /\ gl' = r.gl
  /\ error_info_log' = r.log
  /\ ret' = r.ret
  /\ create_succeeded' = (create_succeeded \/ r.ret)
  /\ create_failed' = (create_failed \/ ~r.ret)

\* ShaderProgram::Create(error_info_log). The context stops handing out
\* names after MaxHandles, so a build is only started while three are left.
Create(error_info_log_ptr, alloc) ==
  /\ alive
  /\ shader_program.created_ \/ gl.next + 2 <= MaxHandles
  /\ Created(CreateOutcome(shader_program, NoCalls(gl), error_info_log_ptr,
                           error_info_log, alloc))
  /\ op' = "Create"
  /\ arg' = [log_ptr |-> error_info_log_ptr, text |-> "", alloc |-> alloc]
  /\ UNCHANGED alive
  /\ UNCHANGED nonShaderVars

\* Use without the test of created_.
UseOutcomeUnguarded(self, g) ==
  [ret |-> TRUE, gl |-> glUseProgram(g, self.shader_program_id_)]

\* ShaderProgram::Use()
UseOutcome(self, g) ==
  IF self.created_
  THEN [ret |-> TRUE, gl |-> glUseProgram(g, self.shader_program_id_)]
  ELSE [ret |-> FALSE, gl |-> g]

\* The effect of Use: r is its outcome.
Used(r) ==
  /\ gl' = r.gl
  /\ ret' = r.ret

Use ==
  /\ alive
  /\ Used(UseOutcome(shader_program, NoCalls(gl)))
  /\ op' = "Use"
  /\ arg' = [log_ptr |-> FALSE, text |-> "", alloc |-> NoAlloc]
  /\ UNCHANGED <<shader_program, alive, error_info_log, create_succeeded, create_failed>>
  /\ UNCHANGED nonShaderVars

\* The destructor without the test of created_.
DestructorOutcomeUnguarded(self, g) == glDeleteProgram(g, self.shader_program_id_)

\* ShaderProgram::~ShaderProgram()
DestructorOutcome(self, g) ==
  IF self.created_ THEN glDeleteProgram(g, self.shader_program_id_) ELSE g

Destroy ==
  /\ alive
  /\ alive' = FALSE
  /\ gl' = DestructorOutcome(shader_program, NoCalls(gl))
  /\ op' = "~ShaderProgram"
  /\ arg' = [log_ptr |-> FALSE, text |-> "", alloc |-> NoAlloc]
  /\ UNCHANGED <<shader_program, error_info_log, ret, create_succeeded, create_failed>>
  /\ UNCHANGED nonShaderVars

(***************************************************************************)
(* transformations.cc and the matrix arithmetic of its callers. A matrix   *)
(* is a tuple of four rows of four coefficients.                           *)
(***************************************************************************)
Coord == (0 - MaxCoord)..MaxCoord
Vector3 == Coord \X Coord \X Coord

\* Eigen::Matrix4f::Random() draws every coefficient from [-1, 1]; the
\* draws are sampled by the matrices whose rows come from RandomRows.
RandomRows == {<<1, 0, 0, 1>>, <<0, 1, 0, 0 - 1>>, <<0 - 1, 1, 1, 0>>}
RandomMatrix4f == RandomRows \X RandomRows \X RandomRows \X RandomRows

\* ComputeTranslationMatrix(offset): random is the draw of Matrix4f::Random().
ComputeTranslationMatrix(v, random) == random

\* Eigen: -1.0f * v
Negate(v) == <<0 - v[1], 0 - v[2], 0 - v[3]>>
\* Eigen: v.homogeneous()
Homogeneous(v) == <<v[1], v[2], v[3], 1>>
\* Eigen: Matrix4f * Vector4f
MatVec(m, v) == [i \in 1..4 |-> m[i][1] * v[1] + m[i][2] * v[2] + m[i][3] * v[3] + m[i][4] * v[4]]
\* Eigen: Matrix4f * Matrix4f
MatMul(a, b) ==
  [i \in 1..4 |-> [j \in 1..4 |->
     a[i][1] * b[1][j] + a[i][2] * b[2][j] + a[i][3] * b[3][j] + a[i][4] * b[4][j]]]
\* Eigen: Matrix4f::sum()
MatSum(m) ==
  LET RowSum(r) == r[1] + r[2] + r[3] + r[4]
  IN  RowSum(m[1]) + RowSum(m[2]) + RowSum(m[3]) + RowSum(m[4])

ZeroMatrix == <<<<0, 0, 0, 0>>, <<0, 0, 0, 0>>, <<0, 0, 0, 0>>, <<0, 0, 0, 0>>>>

\* A caller picks the offset to translate by.
ChooseOffset(o) ==
  /\ tpc = "start"
  /\ offset' = o
  /\ tpc' = "chosen"
  /\ UNCHANGED <<translation1, translation2, scalingVars, rotationVars>>
  /\ UNCHANGED nonTransformVars

\* translation1 = ComputeTranslationMatrix(offset)
Translate(random) ==
  /\ tpc = "chosen"
  /\ translation1' = ComputeTranslationMatrix(offset, random)
  /\ tpc' = "translated"
  /\ UNCHANGED <<offset, translation2, scalingVars, rotationVars>>
  /\ UNCHANGED nonTransformVars

\* translation2 = ComputeTranslationMatrix(-1.0f * offset)
TranslateBack(random) ==
  /\ tpc = "translated"
  /\ translation2' = ComputeTranslationMatrix(Negate(offset), random)
  /\ tpc' = "inverted"
  /\ UNCHANGED <<offset, translation1, scalingVars, rotationVars>>
  /\ UNCHANGED nonTransformVars

\* translation2 = ComputeTranslationMatrix(offset), a second call with the
\* argument of the first.
TranslateAgain(random) ==
  /\ tpc = "translated"
  /\ translation2' = ComputeTranslationMatrix(offset, random)
  /\ tpc' = "repeated"
  /\ UNCHANGED <<offset, translation1, scalingVars, rotationVars>>
  /\ UNCHANGED nonTransformVars

\* ComputeScalingMatrix(scale): random is the draw of Matrix4f::Random().
ComputeScalingMatrix(s, random) == random

\* The scale factors a caller picks from.
Scales == 1..(MaxCoord + 1)

\* A caller picks the scale factor.
ChooseScale(s) ==
  /\ tpc = "start"
  /\ scale' = s
  /\ tpc' = "scale_chosen"
  /\ UNCHANGED <<scaling, translationVars, rotationVars>>
  /\ UNCHANGED nonTransformVars

\* scaling = ComputeScalingMatrix(scale)
Scale(random) ==
  /\ tpc = "scale_chosen"
  /\ scaling' = ComputeScalingMatrix(scale, random)
  /\ tpc' = "scaled"
  /\ UNCHANGED <<scale, translationVars, rotationVars>>
  /\ UNCHANGED nonTransformVars

\* ComputeRotationMatrix(rotation_axis, angle_in_radians): random is the
\* draw of Matrix4f::Random().
ComputeRotationMatrix(axis, angle_in_radians, random) == random

\* Angles are counted in quarter turns (pi / 2 radians).
QuarterTurns == {1, 2}
\* The axes a caller picks from: every vector but the zero vector.
Axes == Vector3 \ {<<0, 0, 0>>}

\* A caller picks the axis and the angle.
ChooseRotation(axis, a) ==
  /\ tpc = "start"
  /\ rotation_axis' = axis
  /\ angle' = a
  /\ tpc' = "rotation_chosen"
  /\ UNCHANGED <<rotation1, rotation2, translationVars, scalingVars>>
  /\ UNCHANGED nonTransformVars

\* rotation1 = ComputeRotationMatrix(axis, angle)
Rotate(random) ==
  /\ tpc = "rotation_chosen"
  /\ rotation1' = ComputeRotationMatrix(rotation_axis, angle, random)
  /\ tpc' = "rotated"
  /\ UNCHANGED <<rotation_axis, angle, rotation2, translationVars, scalingVars>>
  /\ UNCHANGED nonTransformVars

\* rotation2 = ComputeRotationMatrix(axis, -angle)
RotateBack(random) ==
  /\ tpc = "rotated"
  /\ rotation2' = ComputeRotationMatrix(rotation_axis, 0 - angle, random)
  /\ tpc' = "rotated_back"
  /\ UNCHANGED <<rotation_axis, angle, rotation1, translationVars, scalingVars>>
  /\ UNCHANGED nonTransformVars

(***************************************************************************)
(* model.cc: class Model. Angles are counted in quarter turns, so that an  *)
(* orientation (axis times angle) along a coordinate axis has a rotation   *)
(* matrix with integer coefficients.                                       *)
(***************************************************************************)
UnitAxes == {v \in Vector3 : v[1] * v[1] + v[2] * v[2] + v[3] * v[3] = 1}
Orientations == {<<k * u[1], k * u[2], k * u[3]>> : u \in UnitAxes, k \in QuarterTurns}
\* std::vector<GLuint> indices: none, or the three indices of the tests.
IndexLists == {<< >>, <<0, 0, 0>>}
\* Eigen::MatrixXf vertices: three vertices, one per column.
Vertices == <<<<0, 0, 0>>, <<1, 0, 0>>, <<0, 1, 0>>>>

\* Model::Model(orientation, position, vertices) leaves indices_ empty;
\* Model::Model(orientation, position, vertices, indices) stores them.
NewModel(orientation, position, vertices, indices) ==
  [orientation_ |-> orientation,
   position_ |-> position,
   vertices_ |-> vertices,
   indices_ |-> indices,
   vertex_buffer_object_id_ |-> 0,
   vertex_array_object_id_ |-> 0,
   element_buffer_object_id_ |-> 0]

\* Model::set_orientation and Model::set_position copy their argument.
set_orientation(self, orientation) == [self EXCEPT !.orientation_ = orientation]
set_position(self, position) == [self EXCEPT !.position_ = position]

\* Model::ComputeModelMatrix(): random is the draw of Matrix4f::Random().
ComputeModelMatrix(self, random) == random

\* Model::SetVerticesIntoGpu(): the body is empty, so the object and the
\* context are what they were.
SetVerticesIntoGpu(self, g) == [model |-> self, gl |-> g]

\* Model::~Model(): the body is empty, so the context is what it was.
ModelDestructor(self, g) == g

ConstructModel(orientation, position, indices) ==
  /\ mpc = "start"
  /\ model' = NewModel(orientation, position, Vertices, indices)
  /\ mpc' = "constructed"
  /\ UNCHANGED <<model_matrix, vertices_in_gpu, gl>>
  /\ UNCHANGED nonModelVars

SetOrientation(orientation) ==
  /\ mpc = "constructed"
  /\ model' = set_orientation(model, orientation)
  /\ UNCHANGED <<model_matrix, vertices_in_gpu, mpc, gl>>
  /\ UNCHANGED nonModelVars

SetPosition(position) ==
  /\ mpc = "constructed"
  /\ model' = set_position(model, position)
  /\ UNCHANGED <<model_matrix, vertices_in_gpu, mpc, gl>>
  /\ UNCHANGED nonModelVars

ModelMatrix(random) ==
  /\ mpc = "constructed"
  /\ model_matrix' = ComputeModelMatrix(model, random)
  /\ mpc' = "computed"
  /\ UNCHANGED <<model, vertices_in_gpu, gl>>
  /\ UNCHANGED nonModelVars

UploadModel ==
  /\ mpc \in {"constructed", "computed"}
  /\ model' = SetVerticesIntoGpu(model, gl).model
  /\ gl' = SetVerticesIntoGpu(model, gl).gl
  /\ vertices_in_gpu' = TRUE
  /\ mpc' = "uploaded"
  /\ UNCHANGED model_matrix
  /\ UNCHANGED nonModelVars

DestroyModel ==
  /\ mpc \in {"constructed", "computed", "uploaded"}
  /\ gl' = ModelDestructor(model, gl)
  /\ mpc' = "destroyed"
  /\ UNCHANGED <<model, model_matrix, vertices_in_gpu>>
  /\ UNCHANGED nonModelVars

(***************************************************************************)
(* assignment.cc: the products of two 3-vectors, as Eigen computes them.   *)
(***************************************************************************)
\* Eigen's cwiseProduct and the sum of the first n coefficients.
CwiseProduct(a, b) == [i \in 1..3 |-> a[i] * b[i]]
RECURSIVE Sum(_, _)
Sum(v, n) == IF n = 0 THEN 0 ELSE Sum(v, n - 1) + v[n]

\* ComputeDotProduct(vx, vy) is vx.dot(vy): the sum of the coefficient products.
ComputeDotProductDropsLast(a, b) == Sum(CwiseProduct(a, b), 2)
ComputeDotProduct(a, b) == Sum(CwiseProduct(a, b), 3)

\* ComputeCrossProduct(vx, vy) is vx.cross(vy).
ComputeCrossProductWrongSign(a, b) ==
  <<a[2] * b[3] - a[3] * b[2],
    a[1] * b[3] - a[3] * b[1],
    a[1] * b[2] - a[2] * b[1]>>
ComputeCrossProduct(a, b) ==
  <<a[2] * b[3] - a[3] * b[2],
    a[3] * b[1] - a[1] * b[3],
    a[1] * b[2] - a[2] * b[1]>>

\* A caller picks the two vectors.
ChooseVectors(a, b) ==
  /\ lpc = "start"
  /\ vx' = a
  /\ vy' = b
  /\ lpc' = "chosen"
  /\ UNCHANGED <<dot_result, cross_result, cross_swapped>>
  /\ UNCHANGED nonAssignmentVars

\* dot_result = ComputeDotProduct(vx, vy)
DotProduct ==
  /\ lpc = "chosen"
  /\ dot_result' = ComputeDotProduct(vx, vy)
  /\ lpc' = "dot"
  /\ UNCHANGED <<vx, vy, cross_result, cross_swapped>>
  /\ UNCHANGED nonAssignmentVars

\* cross_result = ComputeCrossProduct(vx, vy)
CrossProduct ==
  /\ lpc = "chosen"
  /\ cross_result' = ComputeCrossProduct(vx, vy)
  /\ lpc' = "cross"
  /\ UNCHANGED <<vx, vy, dot_result, cross_swapped>>
  /\ UNCHANGED nonAssignmentVars

\* cross_swapped = ComputeCrossProduct(vy, vx)
CrossProductSwapped ==
  /\ lpc = "cross"
  /\ cross_swapped' = ComputeCrossProduct(vy, vx)
  /\ lpc' = "cross_swapped"
  /\ UNCHANGED <<vx, vy, dot_result, cross_result>>
  /\ UNCHANGED nonAssignmentVars

(***************************************************************************)
(* camera_utils.cc. A GLfloat is modelled by the fraction <<n, d>> it      *)
(* stands for, in lowest terms with d > 0; an angle by a whole number of   *)
(* eighths of a turn (pi / 4 radians), the angles whose tangent is a       *)
(* fraction.                                                               *)
(***************************************************************************)
RECURSIVE GCD(_, _)
GCD(a, b) == IF b = 0 THEN a ELSE GCD(b, a % b)
AbsInt(n) == IF n < 0 THEN 0 - n ELSE n
Fraction(n, d) ==
  LET g == GCD(AbsInt(n), AbsInt(d))
  IN  IF d < 0 THEN <<(0 - n) \div g, (0 - d) \div g>> ELSE <<n \div g, d \div g>>
Float(n) == <<n, 1>>
FloatNeg(a) == <<0 - a[1], a[2]>>
FloatAdd(a, b) == Fraction(a[1] * b[2] + b[1] * a[2], a[2] * b[2])
FloatSub(a, b) == Fraction(a[1] * b[2] - b[1] * a[2], a[2] * b[2])
FloatMul(a, b) == Fraction(a[1] * b[1], a[2] * b[2])
FloatDiv(a, b) == Fraction(a[1] * b[2], a[2] * b[1])

\* kHalfPi, in eighths of a turn.
kHalfPi == 2
\* 0.5f * angle, for an angle that is an even number of eighths.
HalfAngle(a) == a \div 2
\* tan of a whole number of eighths of a turn that is not an odd multiple
\* of pi / 2.
tan(a) == CASE a % 4 = 0 -> Float(0)
            [] a % 4 = 1 -> Float(1)
            [] a % 4 = 3 -> Float(0 - 1)

\* ComputeCotangent(angle) is tan(kHalfPi - angle).
ComputeCotangentUnflipped(a) == tan(a - kHalfPi)
ComputeCotangent(a) == tan(kHalfPi - a)

ComputePerspectiveProjectionMatrix(fov, aspect, near_plane, far_plane) ==
  LET y_scale == ComputeCotangent(HalfAngle(fov))
      x_scale == FloatDiv(y_scale, aspect)
      planes_distance == FloatSub(far_plane, near_plane)
      z_scale == FloatDiv(FloatNeg(FloatAdd(near_plane, far_plane)), planes_distance)
      homogeneous_scale ==
        FloatDiv(FloatMul(FloatMul(Float(0 - 2), near_plane), far_plane), planes_distance)
  IN  <<<<x_scale, Float(0), Float(0), Float(0)>>,
        <<Float(0), y_scale, Float(0), Float(0)>>,
        <<Float(0), Float(0), z_scale, homogeneous_scale>>,
        <<Float(0), Float(0), Float(0 - 1), Float(0)>>>>

\* The fields of view whose half has a cotangent: a quarter, a half and
\* three quarters of a turn.
FieldsOfView == {2, 4, 6}
AspectRatios == {Fraction(w, h) : w \in 1..MaxSide, h \in 1..MaxSide}
Depths == 1..MaxDepth

\* A caller picks the frustum: far > near > 0 and aspect > 0.
ChooseFrustum(fov, aspect, n, f) ==
  /\ cpc = "start"
  /\ f > n
  /\ field_of_view' = fov
  /\ aspect_ratio' = aspect
  /\ near' = Float(n)
  /\ far' = Float(f)
  /\ cpc' = "chosen"
  /\ UNCHANGED projection_matrix
  /\ UNCHANGED nonCameraVars

\* projection_matrix = ComputePerspectiveProjectionMatrix(fov, aspect, near, far)
Project ==
  /\ cpc = "chosen"
  /\ projection_matrix' =
       ComputePerspectiveProjectionMatrix(field_of_view, aspect_ratio, near, far)
  /\ cpc' = "projected"
  /\ UNCHANGED <<field_of_view, aspect_ratio, near, far>>
  /\ UNCHANGED nonCameraVars

(***************************************************************************)
(* main.cc. main runs one statement group per step; main_pc names the one  *)
(* it is about to run. Every step starts with an empty OpenGL call trace,  *)
(* as the member functions of ShaderProgram do.                            *)
(***************************************************************************)
kWindowWidth == 640
kWindowHeight == 480
\* The two shader sources of main.
vertex_shader_src == "vs_ok"
fragment_shader_src == "fs_ok"

\* The keys and the key actions GLFW reports, and the events one
\* glfwPollEvents can dispatch: key events and the window's close request.
Keys == {"GLFW_KEY_ESCAPE", "GLFW_KEY_A"}
KeyActions == {"GLFW_PRESS", "GLFW_RELEASE", "GLFW_REPEAT"}
KeyEvents == [type : {"key"}, key : Keys, action : KeyActions]
CloseRequest == [type |-> "close", key |-> "none", action |-> "none"]
Events == KeyEvents \cup {CloseRequest}
EventQueues == UNION {[1..n -> Events] : n \in 0..MaxEvents}

\* GLFW before glfwInit.
NoGlfw ==
  [initialized |-> FALSE, terminated |-> FALSE, window |-> "null",
   key_callback |-> FALSE, should_close |-> FALSE, swaps |-> 0]

glfwSetWindowShouldClose(w, value) == [w EXCEPT !.should_close = value]
glfwWindowShouldClose(w) == w.should_close

\* KeyCallback closing the window on every key press.
KeyCallbackAnyPress(w, key, action) ==
  IF action = "GLFW_PRESS" THEN glfwSetWindowShouldClose(w, TRUE) ELSE w

\* KeyCallback(window, key, scancode, action, mods)
KeyCallback(w, key, action) ==
  IF key = "GLFW_KEY_ESCAPE" /\ action = "GLFW_PRESS"
  THEN glfwSetWindowShouldClose(w, TRUE)
  ELSE w

\* GLFW's handling of one event: a key event goes to the key callback when
\* one is set, a close request sets the close flag.
DispatchEvent(w, event) ==
  IF event.type = "key"
  THEN IF w.key_callback THEN KeyCallback(w, event.key, event.action) ELSE w
  ELSE glfwSetWindowShouldClose(w, TRUE)

\* glfwPollEvents: the pending events are dispatched in order.
RECURSIVE glfwPollEvents(_, _)
glfwPollEvents(w, events) ==
  IF events = << >> THEN w
  ELSE glfwPollEvents(DispatchEvent(w, Head(events)), Tail(events))

\* glfwTerminate destroys the windows that are left and shuts GLFW down.
glfwTerminate(w) ==
  [w EXCEPT !.terminated = TRUE, !.initialized = FALSE,
            !.window = IF @ = "open" THEN "destroyed" ELSE @]
glfwDestroyWindow(w) == [w EXCEPT !.window = "destroyed"]
glfwSwapBuffers(w) == [w EXCEPT !.swaps = 1 - @]

\* ClearTheFrameBuffer()
ClearTheFrameBuffer(g) ==
  GlTrace(GlTrace(g, <<"glClearColor", 0>>), <<"glClear", 0>>)

\* RenderScene from the polygon mode on: nothing is drawn.
RenderSceneAfterUse(g) ==
  GlTrace(GlTrace(g, <<"glPolygonMode", 0>>), <<"glBindVertexArray", 0>>)

\* RenderScene binding the shader program before it clears the frame buffer.
RenderSceneUseFirst(self, g) == RenderSceneAfterUse(ClearTheFrameBuffer(UseOutcome(self, g).gl))

\* RenderScene(shader_program, projection, view, models_to_draw, window);
\* the result of Use is not read.
RenderScene(self, g) == RenderSceneAfterUse(UseOutcome(self, ClearTheFrameBuffer(g)).gl)

\* ConstructModels and DeleteModels have empty bodies.
ConstructModels(models) == models
DeleteModels(models) == models

\* CreateShaderProgram of main returning true whatever Create left behind.
CreateShaderProgramUnchecked(r) ==
  [ret |-> TRUE, self |-> r.self, gl |-> r.gl, log |-> r.log, created |-> r.ret]

\* CreateShaderProgram(shader_program) of main, from the test of
\* shader_program_id() on: r is what Create returned and left behind.
CreateShaderProgramChecked(r) ==
  [ret |-> r.self.shader_program_id_ # 0, self |-> r.self, gl |-> r.gl, log |-> r.log,
   created |-> r.ret]

\* CreateShaderProgram(shader_program) of main.
CreateShaderProgramOfMain(self, g, alloc) ==
  CreateShaderProgramChecked(
    CreateOutcome([self EXCEPT !.vertex_shader_src_ = vertex_shader_src,
                               !.fragment_shader_src_ = fragment_shader_src],
                  g, TRUE, EmptyString, alloc))

\* return code: the locals of main are destroyed, the ShaderProgram among
\* them when it has been constructed.
Return(code) ==
  /\ exit_code' = <<code>>
  /\ main_pc' = "returned"

\* if (!glfwInit()) return -1; glfwSetErrorCallback; SetWindowHints
MainGlfwInit(ok) ==
  /\ main_pc = "glfwInit"
  /\ IF ok
     THEN /\ glfw' = [glfw EXCEPT !.initialized = TRUE]
          /\ main_pc' = "glfwCreateWindow"
          /\ UNCHANGED exit_code
     ELSE /\ Return(0 - 1)
          /\ UNCHANGED glfw
  /\ UNCHANGED <<models_to_draw, main_aspect_ratio, frames, delivered>>
  /\ UNCHANGED <<shader_program, alive, gl, error_info_log, ret, create_succeeded, create_failed>>
  /\ UNCHANGED loop_trace
  /\ UNCHANGED nonMainVars

\* glfwCreateWindow; if (!window) { glfwTerminate(); return -1; }
\* glfwMakeContextCurrent; glfwSwapInterval; glfwSetKeyCallback
MainCreateWindow(ok) ==
  /\ main_pc = "glfwCreateWindow"
  /\ IF ok
     THEN /\ glfw' = [glfw EXCEPT !.window = "open", !.key_callback = TRUE]
          /\ main_pc' = "glewInit"
          /\ UNCHANGED exit_code
     ELSE /\ glfw' = glfwTerminate(glfw)
          /\ Return(0 - 1)
  /\ UNCHANGED <<models_to_draw, main_aspect_ratio, frames, delivered>>
  /\ UNCHANGED <<shader_program, alive, gl, error_info_log, ret, create_succeeded, create_failed>>
  /\ UNCHANGED loop_trace
  /\ UNCHANGED nonMainVars

\* if (glewInit() != GLEW_OK) { glfwTerminate(); return -1; }
\* ConfigureViewPort(window)
MainGlewInit(ok) ==
  /\ main_pc = "glewInit"
  /\ IF ok
     THEN /\ gl' = GlTrace(NoCalls(gl), <<"glViewport", 0>>)
          /\ main_pc' = "CreateShaderProgram"
          /\ UNCHANGED <<glfw, exit_code>>
     ELSE /\ glfw' = glfwTerminate(glfw)
          /\ Return(0 - 1)
          /\ UNCHANGED gl
  /\ UNCHANGED <<models_to_draw, main_aspect_ratio, frames, delivered>>
  /\ UNCHANGED <<shader_program, alive, error_info_log, ret, create_succeeded, create_failed>>
  /\ UNCHANGED loop_trace
  /\ UNCHANGED nonMainVars

\* The effect of main's CreateShaderProgram: r is what it returned. On
\* failure main returns -1, and the ShaderProgram, never created, is
\* destroyed without a call to OpenGL.
MainShaderProgramCreated(r) ==
  /\ shader_program' = r.self
  /\ error_info_log' = r.log
  /\ ret' = r.ret
  /\ create_succeeded' = (create_succeeded \/ r.created)
  /\ create_failed' = (create_failed \/ ~r.created)
  /\ IF r.ret
     THEN /\ gl' = r.gl
          /\ main_pc' = "ConstructModels"
          /\ UNCHANGED <<alive, exit_code>>
     ELSE /\ gl' = DestructorOutcome(r.self, r.gl)
          /\ alive' = FALSE
          /\ Return(0 - 1)

\* wvu::ShaderProgram shader_program;
\* if (!CreateShaderProgram(&shader_program)) return -1;
MainCreateShaderProgram(alloc) ==
  /\ main_pc = "CreateShaderProgram"
  /\ MainShaderProgramCreated(CreateShaderProgramOfMain(NewShaderProgram, NoCalls(gl), alloc))
  /\ UNCHANGED <<glfw, models_to_draw, main_aspect_ratio, frames, delivered>>
  /\ UNCHANGED loop_trace
  /\ UNCHANGED nonMainVars

\* ConstructModels(&models_to_draw); the locals of the projection, of which
\* aspect_ratio is static_cast<float>(kWindowWidth / kWindowHeight), a
\* division of two ints. RenderScene reads neither projection nor view.
MainConstructModels ==
  /\ main_pc = "ConstructModels"
  /\ models_to_draw' = ConstructModels(<< >>)
  /\ main_aspect_ratio' = Float(kWindowWidth \div kWindowHeight)
  /\ main_pc' = "while"
  /\ UNCHANGED <<glfw, exit_code, frames, delivered>>
  /\ UNCHANGED <<shader_program, alive, gl, error_info_log, ret, create_succeeded, create_failed>>
  /\ UNCHANGED loop_trace
  /\ UNCHANGED nonMainVars

\* while (!glfwWindowShouldClose(window))
MainWhile ==
  /\ main_pc = "while"
  /\ glfwWindowShouldClose(glfw) \/ frames < MaxFrames
  /\ main_pc' = IF glfwWindowShouldClose(glfw) THEN "DeleteModels" ELSE "RenderScene"
  /\ UNCHANGED <<glfw, exit_code, models_to_draw, main_aspect_ratio, frames, delivered>>
  /\ UNCHANGED <<shader_program, alive, gl, error_info_log, ret, create_succeeded, create_failed>>
  /\ UNCHANGED loop_trace
  /\ UNCHANGED nonMainVars

\* RenderScene(shader_program, projection, view, &models_to_draw, window)
MainRenderScene ==
  /\ main_pc = "RenderScene"
  /\ gl' = RenderScene(shader_program, NoCalls(gl))
  /\ frames' = frames + 1
  /\ main_pc' = "glfwSwapBuffers"
  /\ UNCHANGED <<glfw, exit_code, models_to_draw, main_aspect_ratio, delivered>>
  /\ UNCHANGED <<shader_program, alive, error_info_log, ret, create_succeeded, create_failed>>
  /\ loop_trace' = Append(loop_trace, "RenderScene")
  /\ UNCHANGED nonMainVars

\* glfwSwapBuffers(window)
MainSwapBuffers ==
  /\ main_pc = "glfwSwapBuffers"
  /\ glfw' = glfwSwapBuffers(glfw)
  /\ main_pc' = "glfwPollEvents"
  /\ UNCHANGED <<exit_code, models_to_draw, main_aspect_ratio, frames, delivered>>
  /\ UNCHANGED <<shader_program, alive, gl, error_info_log, ret, create_succeeded, create_failed>>
  /\ loop_trace' = Append(loop_trace, "glfwSwapBuffers")
  /\ UNCHANGED nonMainVars

\* glfwPollEvents(): events is what the user did since the last poll.
MainPollEvents(events) ==
  /\ main_pc = "glfwPollEvents"
  /\ glfw' = glfwPollEvents(glfw, events)
  /\ delivered' = events
  /\ main_pc' = "while"
  /\ UNCHANGED <<exit_code, models_to_draw, main_aspect_ratio, frames>>
  /\ UNCHANGED <<shader_program, alive, gl, error_info_log, ret, create_succeeded, create_failed>>
  /\ loop_trace' = Append(loop_trace, "glfwPollEvents")
  /\ UNCHANGED nonMainVars

\* DeleteModels(&models_to_draw)
MainDeleteModels ==
  /\ main_pc = "DeleteModels"
  /\ models_to_draw' = DeleteModels(models_to_draw)
  /\ main_pc' = "glfwDestroyWindow"
  /\ UNCHANGED <<glfw, exit_code, main_aspect_ratio, frames, delivered>>
  /\ UNCHANGED <<shader_program, alive, gl, error_info_log, ret, create_succeeded, create_failed>>
  /\ UNCHANGED loop_trace
  /\ UNCHANGED nonMainVars

\* glfwDestroyWindow(window)
MainDestroyWindow ==
  /\ main_pc = "glfwDestroyWindow"
  /\ glfw' = glfwDestroyWindow(glfw)
  /\ main_pc' = "glfwTerminate"
  /\ UNCHANGED <<exit_code, models_to_draw, main_aspect_ratio, frames, delivered>>
  /\ UNCHANGED <<shader_program, alive, gl, error_info_log, ret, create_succeeded, create_failed>>
  /\ UNCHANGED loop_trace
  /\ UNCHANGED nonMainVars

\* glfwTerminate(); return 0; the ShaderProgram is destroyed on the way out.
MainTerminate ==
  /\ main_pc = "glfwTerminate"
  /\ glfw' = glfwTerminate(glfw)
  /\ gl' = DestructorOutcome(shader_program, NoCalls(gl))
  /\ alive' = FALSE
  /\ Return(0)
  /\ UNCHANGED <<models_to_draw, main_aspect_ratio, frames, delivered>>
  /\ UNCHANGED <<shader_program, error_info_log, ret, create_succeeded, create_failed>>
  /\ UNCHANGED loop_trace
  /\ UNCHANGED nonMainVars

(***************************************************************************)
(* Specifications.                                                         *)
(***************************************************************************)
Init ==
  /\ shader_program = NewShaderProgram
  /\ alive = TRUE
  /\ gl = [next |-> 1, shaders |-> <<>>, programs |-> <<>>, current |-> 0, calls |-> <<>>]
  /\ error_info_log = EmptyString
  /\ op = "ShaderProgram"
  /\ arg = [log_ptr |-> FALSE, text |-> "", alloc |-> NoAlloc]
  /\ ret = TRUE
  /\ create_succeeded = FALSE
  /\ create_failed = FALSE
  /\ offset = <<0, 0, 0>>
  /\ translation1 = ZeroMatrix
  /\ translation2 = ZeroMatrix
  /\ scale = 1
  /\ scaling = ZeroMatrix
  /\ rotation_axis = <<0, 0, 1>>
  /\ angle = 1
  /\ rotation1 = ZeroMatrix
  /\ rotation2 = ZeroMatrix
  /\ tpc = "start"
  /\ model = NewModel(<<0, 0, 1>>, <<0, 0, 0>>, Vertices, << >>)
  /\ model_matrix = ZeroMatrix
  /\ vertices_in_gpu = FALSE
  /\ mpc = "start"
  /\ vx = <<0, 0, 0>>
  /\ vy = <<0, 0, 0>>
  /\ dot_result = 0
  /\ cross_result = <<0, 0, 0>>
  /\ cross_swapped = <<0, 0, 0>>
  /\ lpc = "start"
  /\ field_of_view = 2
  /\ aspect_ratio = Float(1)
  /\ near = Float(1)
  /\ far = Float(2)
  /\ projection_matrix = [i \in 1..4 |-> [j \in 1..4 |-> Float(0)]]
  /\ cpc = "start"
  /\ main_pc = "glfwInit"
  /\ glfw = NoGlfw
  /\ exit_code = << >>
  /\ models_to_draw = << >>
  /\ main_aspect_ratio = Float(0)
  /\ frames = 0
  /\ delivered = << >>
  /\ loop_trace = << >>

\* The life of one ShaderProgram instance under every order of calls.
Next ==
  \/ \E src \in ShaderSources : LoadVertexShaderFromString(src)
  \/ \E src \in ShaderSources : LoadFragmentShaderFromString(src)
  \/ \E path \in ShaderPaths : LoadVertexShaderFromFile(path)
  \/ \E path \in ShaderPaths : LoadFragmentShaderFromFile(path)
  \/ \E ptr \in BOOLEAN, alloc \in BOOLEAN \X BOOLEAN \X BOOLEAN : Create(ptr, alloc)
  \/ Use
  \/ Destroy

Spec == Init /\ [][Next]_vars

\* The callers of the transform builders.
NextTransform ==
  \/ \E o \in Vector3 : ChooseOffset(o)
  \/ \E m \in RandomMatrix4f : Translate(m)
  \/ \E m \in RandomMatrix4f : TranslateBack(m)
  \/ \E m \in RandomMatrix4f : TranslateAgain(m)
  \/ \E s \in Scales : ChooseScale(s)
  \/ \E m \in RandomMatrix4f : Scale(m)
  \/ \E axis \in Axes, a \in QuarterTurns : ChooseRotation(axis, a)
  \/ \E m \in RandomMatrix4f : Rotate(m)
  \/ \E m \in RandomMatrix4f : RotateBack(m)

SpecTransform == Init /\ [][NextTransform]_vars

\* The life of one Model object, as in the fixture ModelTest.
NextModel ==
  \/ \E o \in Orientations, t \in Vector3, i \in IndexLists : ConstructModel(o, t, i)
  \/ \E o \in Orientations : SetOrientation(o)
  \/ \E t \in Vector3 : SetPosition(t)
  \/ \E m \in RandomMatrix4f : ModelMatrix(m)
  \/ UploadModel
  \/ DestroyModel

SpecModel == Init /\ [][NextModel]_vars

\* The calls of the tests LinearAlgebra on the two products.
NextAssignment ==
  \/ \E a \in Vector3, b \in Vector3 : ChooseVectors(a, b)
  \/ DotProduct
  \/ CrossProduct
  \/ CrossProductSwapped

SpecAssignment == Init /\ [][NextAssignment]_vars

\* The calls of ComputePerspectiveProjectionMatrix on a frustum.
NextCamera ==
  \/ \E fov \in FieldsOfView, aspect \in AspectRatios, n \in Depths, f \in Depths :
       ChooseFrustum(fov, aspect, n, f)
  \/ Project

SpecCamera == Init /\ [][NextCamera]_vars

\* One run of main, under every answer of GLFW, GLEW and the OpenGL driver
\* and everything the user does at the window.
NextMain ==
  \/ \E ok \in BOOLEAN : MainGlfwInit(ok)
  \/ \E ok \in BOOLEAN : MainCreateWindow(ok)
  \/ \E ok \in BOOLEAN : MainGlewInit(ok)
  \/ \E alloc \in BOOLEAN \X BOOLEAN \X BOOLEAN : MainCreateShaderProgram(alloc)
  \/ MainConstructModels
  \/ MainWhile
  \/ MainRenderScene
  \/ MainSwapBuffers
  \/ \E events \in EventQueues : MainPollEvents(events)
  \/ MainDeleteModels
  \/ MainDestroyWindow
  \/ MainTerminate

SpecMain == Init /\ [][NextMain]_vars

\* main is a running process: while it has a statement to run, it runs it.
SpecMainFair == SpecMain /\ WF_vars(NextMain)

(***************************************************************************)
(* Properties of ShaderProgram.                                            *)
(***************************************************************************)
\* What the three steps of the Create call that ran last do (or would do
\* when reached), from the context's answers and the driver's verdicts.
VertexCompiles ==
  arg.alloc[1] /\ DriverCompiles(VERTEX, shader_program.vertex_shader_src_)
FragmentCompiles ==
  arg.alloc[2] /\ DriverCompiles(FRAGMENT, shader_program.fragment_shader_src_)
ProgramLinks ==
  arg.alloc[3] /\ DriverLinks(shader_program.vertex_shader_src_,
                              shader_program.fragment_shader_src_)

\* The steps a call trace shows, in the order they were started.
StepOf(call) ==
  IF call[1] = "glCreateProgram" THEN "link"
  ELSE IF call[2] = VERTEX THEN "vertex" ELSE "fragment"
IsStepStart(call) == call[1] \in {"glCreateShader", "glCreateProgram"}
StepsOf(calls) ==
  LET starts == SelectSeq(calls, IsStepStart)
  IN  [i \in 1..Len(starts) |-> StepOf(starts[i])]

\* The program names that the calls of the given kind in a trace name.
NamedBy(calls, name) == {calls[i][2] : i \in {j \in 1..Len(calls) : calls[j][1] = name}}
CountCalls(calls, name) == Cardinality({j \in 1..Len(calls) : calls[j][1] = name})

\* C1: a Create call on an instance that is not created yet, in which the
\* vertex compile, the fragment compile or the link fails, returns false
\* and leaves shader_program_id() at 0.
C1_FailedCreateKeepsZeroId ==
  [][(/\ ~shader_program.created_
      /\ op' = "Create"
      /\ ~(VertexCompiles' /\ FragmentCompiles' /\ ProgramLinks'))
     => (ret' = FALSE /\ shader_program_id' = 0)]_vars

C1_Witness ==
  /\ op = "Create" /\ ret = FALSE /\ shader_program_id = 0
  /\ VertexCompiles /\ FragmentCompiles /\ ~ProgramLinks
  /\ CountCalls(gl.calls, "glLinkProgram") = 1

\* C2: a Create call in which both sources compile and the program links
\* returns true, and shader_program_id() is then the non-zero name of the
\* program object this call created and linked.
C2_SuccessfulCreateYieldsLinkedHandle ==
  [][(/\ ~shader_program.created_
      /\ op' = "Create"
      /\ VertexCompiles' /\ FragmentCompiles' /\ ProgramLinks')
     => (/\ ret' = TRUE
         /\ shader_program_id' # 0
         /\ shader_program_id' \notin DOMAIN gl.programs
         /\ shader_program_id' \in DOMAIN gl'.programs
         /\ gl'.programs[shader_program_id'].status
         /\ NamedBy(gl'.calls, "glLinkProgram") = {shader_program_id'})]_vars

C2_Witness ==
  /\ op = "Create" /\ ret = TRUE /\ gl.calls # <<>>
  /\ shader_program_id # 0
  /\ shader_program_id \in DOMAIN gl.programs
  /\ gl.programs[shader_program_id].status

\* C3: after a Create call that returned false and was given a non-null
\* error_info_log, the caller's string is not empty, whichever step failed.
C3_FailedCreateReportsNonEmptyLog ==
  (op = "Create" /\ ret = FALSE /\ arg.log_ptr) => error_info_log.size > 0

\* The driver kept no text for the failure, and the string is still not empty.
C3_Witness ==
  /\ op = "Create" /\ ret = FALSE /\ arg.log_ptr
  /\ arg.alloc[1] /\ shader_program.vertex_shader_src_ = ""
  /\ error_info_log.size > 0 /\ error_info_log.text = <<>>

\* C4: a Create call on a created instance returns true, makes no GL call
\* and leaves the instance (id and both sources), the context and the
\* caller's error_info_log as they were.
C4_CreateIsIdempotent ==
  [][(shader_program.created_ /\ op' = "Create")
     => (/\ ret' = TRUE
         /\ gl'.calls = <<>>
         /\ gl' = NoCalls(gl)
         /\ shader_program' = shader_program
         /\ error_info_log' = error_info_log)]_vars

\* The second Create ran after the vertex source was replaced by text that
\* does not compile, with a log pointer.
C4_Witness ==
  /\ op = "Create" /\ ret = TRUE /\ gl.calls = <<>> /\ arg.log_ptr
  /\ shader_program.created_
  /\ ~DriverCompiles(VERTEX, shader_program.vertex_shader_src_)

\* C5: Use returns true exactly when an earlier Create on the instance
\* returned true; otherwise it returns false and makes no GL call, so no
\* program is bound.
C5_UseOnlyAfterSuccessfulCreate ==
  op = "Use" =>
    /\ ret = create_succeeded
    /\ ~create_succeeded => (gl.calls = <<>> /\ gl.current = 0)

\* Use on an instance whose Create has failed.
C5_Witness ==
  /\ op = "Use" /\ ret = FALSE
  /\ shader_program.vertex_shader_ = 0 /\ gl.next > 1

\* C6: the destructor issues exactly one glDeleteProgram, on the linked
\* program's name, when a Create succeeded on the instance, and no GL call
\* at all when none did.
C6_DestructorDeletesProgramOnce ==
  op = "~ShaderProgram" =>
    IF create_succeeded
    THEN /\ shader_program_id # 0
         /\ gl.calls = <<<<"glDeleteProgram", shader_program_id>>>>
         /\ \/ shader_program_id \notin DOMAIN gl.programs
            \/ gl.programs[shader_program_id].delete_pending
    ELSE gl.calls = <<>>

C6_Witness ==
  /\ op = "~ShaderProgram" /\ ~alive /\ create_succeeded
  /\ CountCalls(gl.calls, "glDeleteProgram") = 1
  /\ shader_program_id \notin DOMAIN gl.programs

\* The info log string a failing step leaves: the driver's text for the
\* object, NUL-padded to kNumCharsInfoLog characters.
InfoLogOf(text) == [size |-> kNumCharsInfoLog, text |-> text]
FailingStepLog ==
  IF ~VertexCompiles
  THEN InfoLogOf(IF arg.alloc[1]
                 THEN DriverShaderLog(VERTEX, shader_program.vertex_shader_src_) ELSE <<>>)
  ELSE IF ~FragmentCompiles
  THEN InfoLogOf(IF arg.alloc[2]
                 THEN DriverShaderLog(FRAGMENT, shader_program.fragment_shader_src_) ELSE <<>>)
  ELSE InfoLogOf(IF arg.alloc[3]
                 THEN DriverProgramLog(shader_program.vertex_shader_src_,
                                       shader_program.fragment_shader_src_) ELSE <<>>)

\* C7: Create starts its steps in the order vertex compile, fragment
\* compile, link and starts none after the first that fails; the log the
\* caller gets is that of the failing step.
C7_CreateStopsAtFirstFailure ==
  [][(~shader_program.created_ /\ op' = "Create")
     => (/\ StepsOf(gl'.calls) =
              IF ~VertexCompiles' THEN <<"vertex">>
              ELSE IF ~FragmentCompiles' THEN <<"vertex", "fragment">>
              ELSE <<"vertex", "fragment", "link">>
         /\ ret' = (VertexCompiles' /\ FragmentCompiles' /\ ProgramLinks')
         /\ (ret' = FALSE /\ arg'.log_ptr) => error_info_log' = FailingStepLog')]_vars

\* The vertex compile failed although the fragment source would compile:
\* only the vertex step was started and its log was reported.
C7_Witness ==
  /\ op = "Create" /\ ret = FALSE /\ arg.log_ptr
  /\ ~VertexCompiles /\ FragmentCompiles
  /\ StepsOf(gl.calls) = <<"vertex">>
  /\ error_info_log = InfoLogOf(<<1, 9>>)

\* C8: the From-String loaders return true and store the text; the
\* From-File loaders return false when the path cannot be opened, and
\* otherwise return true and store the file's text.
C8_LoadersReturnValues ==
  /\ op = "LoadVertexShaderFromString" =>
       (ret = TRUE /\ shader_program.vertex_shader_src_ = arg.text)
  /\ op = "LoadFragmentShaderFromString" =>
       (ret = TRUE /\ shader_program.fragment_shader_src_ = arg.text)
  /\ op = "LoadVertexShaderFromFile" =>
       /\ ret = FileOpens(arg.text)
       /\ ret => shader_program.vertex_shader_src_ = FileContents(arg.text)
  /\ op = "LoadFragmentShaderFromFile" =>
       /\ ret = FileOpens(arg.text)
       /\ ret => shader_program.fragment_shader_src_ = FileContents(arg.text)

C8_Witness ==
  /\ op = "LoadFragmentShaderFromFile" /\ ret = FALSE
  /\ ~FileOpens(arg.text)
  /\ shader_program.vertex_shader_src_ = "vs_ok"

(***************************************************************************)
(* Properties of the transform builders.                                   *)
(***************************************************************************)
Identity4 == <<<<1, 0, 0, 0>>, <<0, 1, 0, 0>>, <<0, 0, 1, 0>>, <<0, 0, 0, 1>>>>
\* The identity with v in the first three rows of the last column.
TranslationBy(v) == <<<<1, 0, 0, v[1]>>, <<0, 1, 0, v[2]>>, <<0, 0, 1, v[3]>>, <<0, 0, 0, 1>>>>
Add3(x, y) == <<x[1] + y[1], x[2] + y[2], x[3] + y[3]>>

\* C9: ComputeTranslationMatrix(offset) is the identity with offset in the
\* last column, and maps [p;1] to [p+offset;1] for every point p.
C9_TranslationMatrixCorrectness ==
  tpc \in {"translated", "inverted", "repeated"} =>
    /\ translation1 = TranslationBy(offset)
    /\ \A p \in Vector3 :
         MatVec(translation1, Homogeneous(p)) = Homogeneous(Add3(p, offset))

\* C10: ComputeTranslationMatrix(v) * ComputeTranslationMatrix(-v) is the
\* identity matrix, whose coefficients add up to 4.
C10_TranslationMatrixInverse ==
  tpc = "inverted" =>
    /\ MatMul(translation1, translation2) = Identity4
    /\ MatSum(MatMul(translation1, translation2)) = 4

ScaleVector(s, p) == <<s * p[1], s * p[2], s * p[3]>>
ScalingBy(s) == <<<<s, 0, 0, 0>>, <<0, s, 0, 0>>, <<0, 0, s, 0>>, <<0, 0, 0, 1>>>>

\* C11: ComputeScalingMatrix(s) is diag(s, s, s, 1), and maps [p;1] to
\* [s*p;1] for every point p.
C11_ScalingMatrixCorrectness ==
  tpc = "scaled" =>
    /\ scaling = ScalingBy(scale)
    /\ \A p \in Vector3 :
         MatVec(scaling, Homogeneous(p)) = Homogeneous(ScaleVector(scale, p))

\* C12: ComputeRotationMatrix(axis, a) * ComputeRotationMatrix(axis, -a) is
\* the identity matrix, for every axis that is not zero and every angle a.
C12_RotationMatrixInverse ==
  tpc = "rotated_back" => MatMul(rotation1, rotation2) = Identity4

\* Cosine and sine of a whole number of quarter turns.
CosQuarter(k) == CASE k % 4 = 0 -> 1 [] k % 4 = 2 -> 0 - 1 [] OTHER -> 0
SinQuarter(k) == CASE k % 4 = 1 -> 1 [] k % 4 = 3 -> 0 - 1 [] OTHER -> 0
Abs(x) == IF x < 0 THEN 0 - x ELSE x
\* |o| and o / |o| of an orientation along a coordinate axis.
NormOf(o) == Abs(o[1]) + Abs(o[2]) + Abs(o[3])
Normalized(o) == <<o[1] \div NormOf(o), o[2] \div NormOf(o), o[3] \div NormOf(o)>>
\* Rodrigues' formula: rotation by k quarter turns about the unit vector u,
\* applied to v: cos * v + sin * (u x v) + (1 - cos) * (u . v) * u.
Dot3(x, y) == x[1] * y[1] + x[2] * y[2] + x[3] * y[3]
Cross3(x, y) == <<x[2] * y[3] - x[3] * y[2],
                  x[3] * y[1] - x[1] * y[3],
                  x[1] * y[2] - x[2] * y[1]>>
RotateVector(u, k, v) ==
  LET c == CosQuarter(k)
      sn == SinQuarter(k)
      w == Cross3(u, v)
      d == (1 - c) * Dot3(u, v)
  IN  <<c * v[1] + sn * w[1] + d * u[1],
        c * v[2] + sn * w[2] + d * u[2],
        c * v[3] + sn * w[3] + d * u[3]>>

\* C13: the matrix ComputeModelMatrix returns for a Model of orientation o
\* (not zero) and position t maps [v;1] to [R*v + t;1], R the rotation by |o|
\* about o / |o|.
C13_ModelMatrixIsRotationThenTranslation ==
  mpc = "computed" =>
    \A v \in Vector3 :
      MatVec(model_matrix, Homogeneous(v)) =
        Homogeneous(Add3(RotateVector(Normalized(model.orientation_),
                                      NormOf(model.orientation_), v),
                         model.position_))

\* C14: the three buffer ids of a Model are 0 from construction until
\* SetVerticesIntoGpu is called; after the call the VAO and VBO ids are
\* greater than 0, and so is the EBO id of a Model constructed with indices.
C14_BufferIdsZeroUntilUpload ==
  mpc \in {"constructed", "computed", "uploaded"} =>
    IF ~vertices_in_gpu
    THEN /\ model.vertex_array_object_id_ = 0
         /\ model.vertex_buffer_object_id_ = 0
         /\ model.element_buffer_object_id_ = 0
    ELSE /\ model.vertex_array_object_id_ > 0
         /\ model.vertex_buffer_object_id_ > 0
         /\ (model.indices_ # << >> => model.element_buffer_object_id_ > 0)

CotEighth(k) == CASE k % 4 = 1 -> 1 [] k % 4 = 2 -> 0 [] k % 4 = 3 -> 0 - 1
\* The fraction a times the fraction b is the fraction c.
TimesIs(a, b, c) == a[1] * b[1] * c[2] = c[1] * a[2] * b[2]

\* C16: for far > near > 0 and aspect > 0 the projection matrix is zero but
\* for (0,0) = y_scale / aspect, (1,1) = y_scale = cot(fov / 2),
\* (2,2) = -(near + far) / (far - near), (2,3) = -2 * near * far / (far - near)
\* and (3,2) = -1; its last row is (0, 0, -1, 0), and (2,2) and (2,3) are
\* negative.
C16_PerspectiveProjectionMatrix ==
  cpc = "projected" =>
    LET m == projection_matrix
        n == near[1]
        f == far[1]
    IN  /\ \A i \in 1..4, j \in 1..4 :
             <<i, j>> \notin {<<1, 1>>, <<2, 2>>, <<3, 3>>, <<3, 4>>, <<4, 3>>}
               => m[i][j] = <<0, 1>>
        /\ m[2][2] = <<CotEighth(field_of_view \div 2), 1>>
        /\ TimesIs(m[1][1], aspect_ratio, m[2][2])
        /\ TimesIs(m[3][3], <<f - n, 1>>, <<0 - (n + f), 1>>)
        /\ TimesIs(m[3][4], <<f - n, 1>>, <<0 - 2 * n * f, 1>>)
        /\ m[4] = <<<<0, 1>>, <<0, 1>>, <<0 - 1, 1>>, <<0, 1>>>>
        /\ m[3][3][1] < 0 /\ m[3][3][2] > 0
        /\ m[3][4][1] < 0 /\ m[3][4][2] > 0

\* A frustum with a quarter turn of field of view, aspect 3 / 2 and planes
\* at 1 and 3: (0,0) = 2 / 3, (1,1) = 1, (2,2) = -2 and (2,3) = -3.
C16_Witness ==
  /\ cpc = "projected"
  /\ field_of_view = 2
  /\ aspect_ratio = <<3, 2>>
  /\ near = <<1, 1>>
  /\ far = <<3, 1>>
  /\ projection_matrix[1][1] = <<2, 3>>
  /\ projection_matrix[2][2] = <<1, 1>>
  /\ projection_matrix[3][3] = <<0 - 2, 1>>
  /\ projection_matrix[3][4] = <<0 - 3, 1>>

\* C17: ComputeDotProduct(vx, vy) is x1*y1 + x2*y2 + x3*y3; of a vector with
\* itself it is the squared norm, which is never negative.
C17_DotProduct ==
  lpc = "dot" =>
    /\ dot_result = vx[1] * vy[1] + vx[2] * vy[2] + vx[3] * vy[3]
    /\ vx = vy => (dot_result = vy[1] * vy[1] + vy[2] * vy[2] + vy[3] * vy[3] /\ dot_result >= 0)

\* A product with a negative term, and the product of a vector with itself.
C17_Witness ==
  /\ lpc = "dot"
  /\ vx = vy
  /\ vx = <<1, 0 - 1, 1>>
  /\ dot_result = 3

\* C18: ComputeCrossProduct(vx, vy) is orthogonal to vx and to vy, the product of
\* the unit vectors of X and Y is the unit vector of Z, and the product of
\* (vy, vx) is the negation of the product of (vx, vy).
C18_CrossProduct ==
  /\ lpc \in {"cross", "cross_swapped"} =>
       /\ Dot3(cross_result, vx) = 0
       /\ Dot3(cross_result, vy) = 0
       /\ (vx = <<1, 0, 0>> /\ vy = <<0, 1, 0>>) => cross_result = <<0, 0, 1>>
  /\ lpc = "cross_swapped" => cross_swapped = Negate(cross_result)

C18_Witness ==
  /\ lpc = "cross_swapped"
  /\ vx = <<1, 0, 0>>
  /\ vy = <<0, 1, 0>>
  /\ cross_result = <<0, 0, 1>>
  /\ cross_swapped = <<0, 0, 0 - 1>>

\* C19: the transform builders are pure: a second call of
\* ComputeTranslationMatrix with the argument of the first returns the matrix
\* the first returned.
C19_TransformBuildersArePure ==
  tpc = "repeated" => translation2 = translation1

EscapePress == [type |-> "key", key |-> "GLFW_KEY_ESCAPE", action |-> "GLFW_PRESS"]
EventsOf(queue) == {queue[i] : i \in 1..Len(queue)}

\* C20: the render loop ends after the current frame once the close flag is
\* set. A glfwPollEvents that hands an ESC key press to KeyCallback sets the
\* flag, and no other key or key action sets it (a poll with neither an ESC
\* press nor a close request of the window leaves the flag clear); no
\* RenderScene call starts while the flag is set; and once it is set main
\* leaves the loop, destroys the window, terminates GLFW and returns 0.
C20_LoopEndsOnceCloseFlagSet ==
  /\ [][main_pc = "glfwPollEvents" =>
          /\ EscapePress \in EventsOf(delivered') => glfw'.should_close
          /\ (/\ ~glfw.should_close
              /\ EscapePress \notin EventsOf(delivered')
              /\ CloseRequest \notin EventsOf(delivered')) => ~glfw'.should_close]_vars
  /\ [][glfw.should_close => (frames' = frames /\ main_pc' # "RenderScene")]_vars
  /\ glfw.should_close ~> (/\ main_pc = "returned"
                           /\ exit_code = <<0>>
                           /\ glfw.window = "destroyed"
                           /\ glfw.terminated)

\* main has returned 0 after one frame whose poll dispatched an ESC press
\* after the press of another key.
C20_Witness ==
  /\ main_pc = "returned"
  /\ exit_code = <<0>>
  /\ frames = 1
  /\ delivered = <<[type |-> "key", key |-> "GLFW_KEY_A", action |-> "GLFW_PRESS"],
                   EscapePress>>
  /\ glfw.should_close

\* The names of the calls of a trace, in order.
CallNames(calls) == [i \in 1..Len(calls) |-> calls[i][1]]
\* The last call of the given name before position i of the trace, 0 if none.
LastBefore(trace, i, name) ==
  LET before == {j \in 1..(i - 1) : trace[j] = name}
  IN  IF before = {} THEN 0 ELSE CHOOSE j \in before : \A k \in before : k <= j
\* The calls of one iteration of the render loop, in the order of main.
LoopCycle == <<"RenderScene", "glfwSwapBuffers", "glfwPollEvents">>

FirstCall(calls, name) ==
  LET at == {j \in 1..Len(calls) : calls[j][1] = name}
  IN  IF at = {} THEN 0 ELSE CHOOSE j \in at : \A k \in at : j <= k
\* The positions at which a trace deletes the shader of the given name.
DeletesOf(calls, id) ==
  {j \in 1..Len(calls) : calls[j] = <<"glDeleteShader", id>>}

\* C22: a Create call that reaches its link step (it creates a program
\* object) hands the vertex and the fragment shader to glDeleteShader after
\* the link and before it returns, whether the link succeeded or failed;
\* the two shaders are then freed or flagged for deletion.
C22_ShadersDeletedAfterLink ==
  [][(/\ ~shader_program.created_
      /\ op' = "Create"
      /\ CountCalls(gl'.calls, "glCreateProgram") = 1)
     => \A id \in {shader_program'.vertex_shader_, shader_program'.fragment_shader_} :
          /\ id # 0
          /\ \E j \in DeletesOf(gl'.calls, id) : j > FirstCall(gl'.calls, "glLinkProgram")
          /\ \/ id \notin DOMAIN gl'.shaders
             \/ gl'.shaders[id].delete_pending]_vars

\* A Create whose link failed deleted both shaders all the same.
C22_Witness ==
  /\ op = "Create" /\ ret = FALSE
  /\ CountCalls(gl.calls, "glLinkProgram") = 1
  /\ ~ProgramLinks
  /\ DeletesOf(gl.calls, shader_program.vertex_shader_) # {}
  /\ DeletesOf(gl.calls, shader_program.fragment_shader_) # {}
  /\ shader_program.vertex_shader_ # shader_program.fragment_shader_

\* C23: the aspect ratio main hands to ComputePerspectiveProjectionMatrix is
\* the width / height ratio of the window, 640 / 480 = 4 / 3.
C23_AspectRatioOfWindow ==
  main_pc \in {"while", "RenderScene", "glfwSwapBuffers", "glfwPollEvents"} =>
    /\ main_aspect_ratio[1] * kWindowHeight = kWindowWidth * main_aspect_ratio[2]
    /\ main_aspect_ratio = <<4, 3>>

\* C24: in every state of a ShaderProgram, whatever Load, Create and Use
\* calls were made, created_ is true exactly when shader_program_id() is
\* not 0.
C24_CreatedIffNonZeroId ==
  shader_program.created_ <=> (shader_program_id # 0)

\* Both sides are true after a Create that succeeded and a later Use.
C24_Witness ==
  /\ op = "Use" /\ ret = TRUE
  /\ shader_program.created_ /\ shader_program_id # 0

\* C25: the created state is absorbing: once a Create has returned true,
\* created_ stays true and shader_program_id() keeps its value under every
\* later Load, Create and Use call, until the destructor runs.
C25_CreatedIsAbsorbing ==
  [][(create_succeeded /\ alive')
     => (/\ shader_program'.created_
         /\ shader_program_id' = shader_program_id
         /\ shader_program_id' # 0)]_vars

\* A source that does not compile was loaded from a file after the Create
\* that succeeded, and the program is still the created one.
C25_Witness ==
  /\ create_succeeded /\ alive
  /\ op = "LoadVertexShaderFromFile" /\ ret = TRUE
  /\ ~DriverCompiles(VERTEX, shader_program.vertex_shader_src_)
  /\ shader_program.created_ /\ shader_program_id # 0

\* C26: a failed Create is not terminal: on an instance on which a Create
\* has returned false and none has returned true, a Create call whose
\* sources compile and link returns true and leaves a non-zero
\* shader_program_id().
C26_CreateSucceedsAfterFailure ==
  [][(/\ create_failed /\ ~create_succeeded
      /\ op' = "Create"
      /\ VertexCompiles' /\ FragmentCompiles' /\ ProgramLinks')
     => (/\ ret' = TRUE
         /\ shader_program'.created_
         /\ shader_program_id' # 0
         /\ shader_program_id' \in DOMAIN gl'.programs
         /\ gl'.programs[shader_program_id'].status)]_vars

\* A Create returned false, and the Create that ran last returned true.
C26_Witness ==
  /\ create_failed /\ create_succeeded
  /\ op = "Create" /\ ret = TRUE
  /\ CountCalls(gl.calls, "glLinkProgram") = 1
  /\ shader_program_id # 0

\* The non-zero names a trace obtained from glCreateShader and glCreateProgram.
ShadersCreatedIn(calls) ==
  {calls[j][3] : j \in {k \in 1..Len(calls) : calls[k][1] = "glCreateShader"}} \ {0}
ProgramsCreatedIn(calls) ==
  {calls[j][2] : j \in {k \in 1..Len(calls) : calls[k][1] = "glCreateProgram"}} \ {0}

\* C27: Create leaks no graphics object: when a Create call returns, every
\* shader object it created has been handed to glDeleteShader and is freed
\* or flagged for deletion, and when it returns false every program object
\* it created has been handed to glDeleteProgram and is gone.
C27_CreateLeaksNothing ==
  [][(op' = "Create")
     => /\ \A id \in ShadersCreatedIn(gl'.calls) :
             /\ DeletesOf(gl'.calls, id) # {}
             /\ \/ id \notin DOMAIN gl'.shaders
                \/ gl'.shaders[id].delete_pending
        /\ ret' = FALSE =>
             \A p \in ProgramsCreatedIn(gl'.calls) :
               /\ <<"glDeleteProgram", p>> \in {gl'.calls[j] : j \in 1..Len(gl'.calls)}
               /\ p \notin DOMAIN gl'.programs]_vars

\* C28: on every path on which main returns after glfwInit succeeded, GLFW
\* has been terminated before the return and no window is left open.
C28_TerminatedOnEveryReturn ==
  (main_pc = "returned" /\ (glfw.initialized \/ glfw.terminated))
    => (/\ glfw.terminated
        /\ ~glfw.initialized
        /\ glfw.window # "open")

\* C29: a Load{Vertex,Fragment}ShaderFromFile call that returns false leaves
\* the object as it was (both sources, the created flag and the program
\* id), and one that returns true leaves the other stage's source as it was.
C29_FailedFileLoadChangesNothing ==
  [][(op' \in {"LoadVertexShaderFromFile", "LoadFragmentShaderFromFile"})
     => /\ ret' = FALSE => shader_program' = shader_program
        /\ (ret' = TRUE /\ op' = "LoadVertexShaderFromFile")
             => shader_program'.fragment_shader_src_ = shader_program.fragment_shader_src_
        /\ (ret' = TRUE /\ op' = "LoadFragmentShaderFromFile")
             => shader_program'.vertex_shader_src_ = shader_program.vertex_shader_src_]_vars

\* A file load failed on a created instance that holds both sources.
C29_Witness ==
  /\ op = "LoadFragmentShaderFromFile" /\ ret = FALSE
  /\ arg.text = "missing.glsl"
  /\ shader_program.vertex_shader_src_ # ""
  /\ shader_program.fragment_shader_src_ # ""
  /\ shader_program.created_

\* C30: main enters the render loop only with a created shader program:
\* its CreateShaderProgram returns true exactly when Create succeeded, main
\* returns -1 without a frame when it returns false, and the Use() of
\* every RenderScene call returns true and makes the created program current.
C30_RenderLoopHasCreatedProgram ==
  /\ [][main_pc = "CreateShaderProgram"
          => /\ ret' <=> create_succeeded'
             /\ ret' <=> shader_program'.created_
             /\ ~ret' => (/\ main_pc' = "returned"
                          /\ exit_code' = <<0 - 1>>
                          /\ frames' = 0 /\ loop_trace' = << >>)]_vars
  /\ [][main_pc = "RenderScene"
          => /\ UseOutcome(shader_program, gl).ret
             /\ shader_program_id # 0
             /\ <<"glUseProgram", shader_program_id>>
                  \in {gl'.calls[j] : j \in 1..Len(gl'.calls)}
             /\ gl'.current = shader_program_id]_vars
  /\ [](main_pc \in {"ConstructModels", "while", "RenderScene",
                     "glfwSwapBuffers", "glfwPollEvents"}
          => (alive /\ create_succeeded /\ shader_program.created_))
  /\ []((exit_code = <<0 - 1>> /\ create_failed) => frames = 0)

\* A frame has been rendered with the created program current.
C30_Witness ==
  /\ main_pc = "glfwSwapBuffers" /\ frames = 1
  /\ create_succeeded /\ ret = TRUE
  /\ shader_program_id # 0 /\ gl.current = shader_program_id
  /\ CountCalls(gl.calls, "glUseProgram") = 1

====
